---- MODULE Spec2Model ----
(***************************************************************************)
(* geomeppy/builder.py: Block and Zone.                                    *)
(*                                                                         *)
(* A caller holds coordinate lists (mutable Python lists, kept in `heap`), *)
(* constructs Blocks from them, reads the Blocks' derived properties and   *)
(* wraps one storey's surfaces in a Zone.  Elevations are Python floats:   *)
(* IEEE-754 doubles, every operation rounded to nearest.                   *)
(***************************************************************************)
EXTENDS Integers, Sequences, FiniteSets, TLC

(* ------------------------------ bounds -------------------------------- *)

\* longest outline the caller starts from (its closed copy has one more point)
MaxLen == 3
\* largest storey count / below-ground storey count passed to Block
MaxStories == 3

(* --------------------- IEEE-754 double arithmetic --------------------- *)
(* Python floats are binary64.  A double is sign * m * 2^exp with a 53-bit  *)
(* significand m = hi * 2^27 + lo (2^52 <= m < 2^53, so 2^25 <= hi < 2^26   *)
(* and lo < 2^27), or Zero.  Every operation rounds its exact result to    *)
(* nearest, ties to even; it is computed on a 56-bit window H * 2^30 + L   *)
(* of the exact result whose lowest bit is set when bits below the window  *)
(* are not all zero.  Overflow, subnormals and the sign of zero do not     *)
(* matter for the values a Block holds and are not represented.            *)

Pow2Table ==
    <<1, 2, 4, 8, 16, 32, 64, 128, 256, 512, 1024, 2048, 4096, 8192, 16384,
      32768, 65536, 131072, 262144, 524288, 1048576, 2097152, 4194304,
      8388608, 16777216, 33554432, 67108864, 134217728, 268435456,
      536870912, 1073741824>>

\* 2^k for k in 0..30
P2(k) == Pow2Table[k + 1]

\* the number of bits of n >= 0
RECURSIVE BitLen(_)
BitLen(n) == IF n = 0 THEN 0 ELSE 1 + BitLen(n \div 2)

Zero == [sign |-> 0, hi |-> 0, lo |-> 0, exp |-> 0]

\* L with its lowest bit set when sticky
Jam(L, sticky) == IF sticky /\ L % 2 = 0 THEN L + 1 ELSE L

\* the double sign * (H * 2^27 + lo) * 2^e, one unit in the last place
\* further from zero when up
Pack(sign, H, lo, up, e) ==
    IF ~up THEN [sign |-> sign, hi |-> H, lo |-> lo, exp |-> e]
    ELSE IF lo + 1 < 134217728
         THEN [sign |-> sign, hi |-> H, lo |-> lo + 1, exp |-> e]
    ELSE IF H + 1 < 67108864
         THEN [sign |-> sign, hi |-> H + 1, lo |-> 0, exp |-> e]
    ELSE [sign |-> sign, hi |-> 33554432, lo |-> 0, exp |-> e + 1]

\* the double nearest to sign * (H * 2^30 + L) * 2^(e - 3), for
\* 2^25 <= H < 2^26 and L < 2^30; ties to even
RoundPack(sign, H, L, e) ==
    Pack(sign, H, L \div 8,
         L % 8 > 4 \/ (L % 8 = 4 /\ (L \div 8) % 2 = 1), e)

\* the double sign * a, for an integer a > 0 of b bits
FromBits(sign, a, b) ==
    IF b <= 26
    THEN [sign |-> sign, hi |-> a * P2(26 - b), lo |-> 0, exp |-> b - 53]
    ELSE [sign |-> sign,
          hi |-> a \div P2(b - 26),
          lo |-> (a % P2(b - 26)) * P2(53 - b),
          exp |-> b - 53]

\* float(n) for a Python int n, |n| < 2^31
FromInt(n) ==
    IF n = 0 THEN Zero
    ELSE IF n < 0 THEN FromBits(-1, -n, BitLen(-n))
    ELSE FromBits(1, n, BitLen(n))

\* -x
FNeg(x) == [x EXCEPT !.sign = -x.sign]

\* |x| >= |y| for doubles other than Zero
MagnitudeGeq(x, y) ==
    \/ x.exp > y.exp
    \/ /\ x.exp = y.exp
       /\ \/ x.hi > y.hi
          \/ x.hi = y.hi /\ x.lo >= y.lo

\* (H * 2^30 + L) \div 2^d as a window [H, L], the lowest bit set when the
\* division leaves a remainder
ShiftRightJam(H, L, d) ==
    IF d = 0 THEN [H |-> H, L |-> L]
    ELSE IF d < 30
         THEN [H |-> H \div P2(d),
               L |-> Jam((L \div P2(d)) + (H % P2(d)) * P2(30 - d),
                         L % P2(d) # 0)]
    ELSE IF d < 56
         THEN [H |-> 0,
               L |-> Jam(H \div P2(d - 30), H % P2(d - 30) # 0 \/ L # 0)]
    ELSE [H |-> 0, L |-> 1]

\* the double nearest to sign * (H * 2^30 + L) * 2^(e + z - 3), for a
\* window H * 2^30 + L > 0 that z more bits fill to 56 bits
RoundShifted(sign, H, L, z, e) ==
    IF z = 0 THEN RoundPack(sign, H, L, e)
    ELSE IF z < 30
         THEN RoundPack(sign, H * P2(z) + (L \div P2(30 - z)),
                        (L % P2(30 - z)) * P2(z), e)
    ELSE RoundPack(sign, L * P2(z - 30), 0, e)

\* the double nearest to sign * (H * 2^30 + L) * 2^(e - 3), for
\* 2^25 <= H < 2^27: the sum of two aligned windows
RoundSum(sign, H, L, e) ==
    IF H < 67108864 THEN RoundPack(sign, H, L, e)
    ELSE RoundPack(sign, H \div 2,
                   Jam((L \div 2) + (H % 2) * 536870912, L % 2 = 1),
                   e + 1)

\* the double nearest to sign * (H * 2^30 + L) * 2^(e - 3), for
\* H < 2^26: the difference of two aligned windows
RoundDifference(sign, H, L, e) ==
    IF H = 0 /\ L = 0 THEN Zero
    ELSE IF H > 0 THEN RoundShifted(sign, H, L, 26 - BitLen(H),
                                    e - (26 - BitLen(H)))
    ELSE RoundShifted(sign, H, L, 56 - BitLen(L), e - (56 - BitLen(L)))

\* x + y for |x| >= |y|, neither Zero, where the window b is the
\* significand of y aligned to that of x
AddAligned(x, y, b) ==
    IF x.sign = y.sign
    THEN RoundSum(x.sign,
                  x.hi + b.H + ((x.lo * 8 + b.L) \div 1073741824),
                  (x.lo * 8 + b.L) % 1073741824,
                  x.exp)
    ELSE IF x.lo * 8 < b.L
         THEN RoundDifference(x.sign, (x.hi - b.H) - 1,
                              (x.lo * 8 - b.L) + 1073741824, x.exp)
    ELSE RoundDifference(x.sign, x.hi - b.H, x.lo * 8 - b.L, x.exp)

\* x + y for |x| >= |y|, neither Zero
AddOrdered(x, y) ==
    AddAligned(x, y, ShiftRightJam(y.hi, y.lo * 8, x.exp - y.exp))

\* x + y
FAdd(x, y) ==
    IF x.sign = 0 THEN y
    ELSE IF y.sign = 0 THEN x
    ELSE IF MagnitudeGeq(x, y) THEN AddOrdered(x, y)
    ELSE AddOrdered(y, x)

\* x - y
FSub(x, y) == FAdd(x, FNeg(y))

\* the significand of x in four 14-bit limbs, least significant first
Limbs(x) ==
    <<x.lo % 16384,
      (x.lo \div 16384) + 8192 * (x.hi % 2),
      (x.hi \div 2) % 16384,
      x.hi \div 32768>>

\* the product of two four-limb numbers in seven columns of limb products,
\* least significant first
Columns(a, b) ==
    <<a[1] * b[1],
      a[1] * b[2] + a[2] * b[1],
      a[1] * b[3] + a[2] * b[2] + a[3] * b[1],
      a[1] * b[4] + a[2] * b[3] + a[3] * b[2] + a[4] * b[1],
      a[2] * b[4] + a[3] * b[3] + a[4] * b[2],
      a[3] * b[4] + a[4] * b[3],
      a[4] * b[4]>>

\* the limbs of the number with columns cs, from column i on, with the
\* carry from the columns below
RECURSIVE Carry(_, _, _)
Carry(cs, i, carry) ==
    IF i > Len(cs) THEN <<carry>>
    ELSE <<(cs[i] + carry) % 16384>>
            \o Carry(cs, i + 1, (cs[i] + carry) \div 16384)

\* the double nearest to sign * p * 2^e for the 105- or 106-bit product p
\* in eight limbs, of which the top 56 bits are kept
RoundProduct(sign, p, e) ==
    IF p[8] >= 128
    THEN RoundPack(sign,
                   p[8] * 262144 + p[7] * 16 + (p[6] \div 1024),
                   Jam((p[6] % 1024) * 1048576 + p[5] * 64
                          + (p[4] \div 256),
                       p[4] % 256 # 0 \/ p[3] # 0 \/ p[2] # 0 \/ p[1] # 0),
                   e + 53)
    ELSE RoundPack(sign,
                   p[8] * 524288 + p[7] * 32 + (p[6] \div 512),
                   Jam((p[6] % 512) * 2097152 + p[5] * 128
                          + (p[4] \div 128),
                       p[4] % 128 # 0 \/ p[3] # 0 \/ p[2] # 0 \/ p[1] # 0),
                   e + 52)

\* x * y
FMul(x, y) ==
    IF x.sign = 0 \/ y.sign = 0 THEN Zero
    ELSE RoundProduct(x.sign * y.sign,
                      Carry(Columns(Limbs(x), Limbs(y)), 1, 0),
                      x.exp + y.exp)

\* hi * 2^27 + lo
Wide(hi, lo) == [hi |-> hi, lo |-> lo]

\* a - b for a >= b
WideSub(a, b) ==
    IF a.lo < b.lo THEN Wide((a.hi - b.hi) - 1, (a.lo - b.lo) + 134217728)
    ELSE Wide(a.hi - b.hi, a.lo - b.lo)

\* 2 * a
WideDouble(a) ==
    Wide(2 * a.hi + ((2 * a.lo) \div 134217728), (2 * a.lo) % 134217728)

\* a < b
WideLess(a, b) == a.hi < b.hi \/ (a.hi = b.hi /\ a.lo < b.lo)

\* k more quotient bits of r / d, for r < d: the quotient q extended by
\* these bits, and the remainder
RECURSIVE DivBits(_, _, _, _)

\* one more quotient bit, for the doubled remainder r2
DivBit(r2, d, k, q) ==
    IF WideLess(r2, d) THEN DivBits(r2, d, k - 1, 2 * q)
    ELSE DivBits(WideSub(r2, d), d, k - 1, 2 * q + 1)

DivBits(r, d, k, q) ==
    IF k = 0 THEN [q |-> q, r |-> r]
    ELSE IF r.hi = 0 /\ r.lo = 0 THEN [q |-> q * P2(k), r |-> r]
    ELSE DivBit(WideDouble(r), d, k, q)

\* the double nearest to the quotient whose 26 leading bits are q and whose
\* 30 following bits, with the remainder they leave, are bot
RoundLow(sign, q, bot, e) ==
    RoundPack(sign, q, Jam(bot.q, bot.r.hi # 0 \/ bot.r.lo # 0), e)

\* the double nearest to the quotient by d whose 26 leading bits, with the
\* remainder they leave, are top
RoundQuotient(sign, top, d, e) ==
    RoundLow(sign, top.q, DivBits(top.r, d, 30, 0), e)

\* the double nearest to sign * (n / d) * 2^(e + 52), for d <= n < 2 * d
DivSignificands(sign, n, d, e) ==
    RoundQuotient(sign, DivBits(WideSub(n, d), d, 25, 1), d, e)

\* x / y for y other than Zero; Python raises ZeroDivisionError otherwise.
\* The significand of x, doubled when it is below that of y, is divided by
\* the significand of y to 56 quotient bits.
FDiv(x, y) ==
    IF x.sign = 0 THEN Zero
    ELSE IF WideLess(Wide(x.hi, x.lo), Wide(y.hi, y.lo))
         THEN DivSignificands(x.sign * y.sign,
                              WideDouble(Wide(x.hi, x.lo)),
                              Wide(y.hi, y.lo), (x.exp - y.exp) - 53)
    ELSE DivSignificands(x.sign * y.sign, Wide(x.hi, x.lo),
                         Wide(y.hi, y.lo), (x.exp - y.exp) - 52)

\* x < y
FLess(x, y) == FSub(x, y).sign = -1

\* x <= y
FLeq(x, y) == FSub(x, y).sign <= 0


(* ------------------ geomeppy.polygons / geomeppy.vectors -------------- *)

\* the None object
None == [tag |-> "None"]

\* Polygon3D(vertices): an ordered sequence of 3-D points <<x, y, z>>
Polygon3D(vertices) == [tag |-> "Polygon3D", vertices |-> vertices]

\* Vector3D(0, 0, dz)
Vector3D(dx, dy, dz) == <<dx, dy, dz>>

\* point + displacement; x and y are the caller's integers, z is a float
VecAdd(p, v) == <<p[1] + v[1], p[2] + v[2], FAdd(p[3], v[3])>>

\* Polygon3D.__add__: the displacement is added to every vertex
PolyAdd(poly, v) ==
    Polygon3D([i \in 1..Len(poly.vertices) |-> VecAdd(poly.vertices[i], v)])

\* Polygon3D.invert_orientation: the same vertices in reversed winding
invert_orientation(poly) ==
    LET n == Len(poly.vertices)
    IN  Polygon3D([i \in 1..n |-> poly.vertices[n + 1 - i]])

\* Polygon3D.edges: consecutive vertex pairs, wrapping last to first
edges(poly) ==
    LET n == Len(poly.vertices)
    IN  [i \in 1..n |-> [p1 |-> poly.vertices[i],
                         p2 |-> poly.vertices[(i % n) + 1]]]

\* component j of the cross product of two points taken as vectors, in
\* float arithmetic
Cross(p, q, j) ==
    LET j1 == (j % 3) + 1
        j2 == (j1 % 3) + 1
        Coord(v, i) == IF i = 3 THEN v[3] ELSE FromInt(v[i])
    IN  FSub(FMul(Coord(p, j1), Coord(q, j2)),
             FMul(Coord(p, j2), Coord(q, j1)))

\* component j of the sum of the cross products of consecutive vertices,
\* from vertex i on, wrapping last to first
RECURSIVE CrossSum(_, _, _)
CrossSum(vs, i, j) ==
    IF i > Len(vs) THEN Zero
    ELSE FAdd(Cross(vs[i], vs[(i % Len(vs)) + 1], j), CrossSum(vs, i + 1, j))

\* Polygon3D.area > 0.  The area is half the length of the sum of the cross
\* products of consecutive vertices, so it is positive exactly when a
\* component of that sum is not zero.
area_positive(poly) ==
    \E j \in 1..3 : CrossSum(poly.vertices, 1, j).sign # 0

(* --------------------------- caller inputs ---------------------------- *)

\* (x, y) tuples the caller builds outlines from
Points == {<<0, 0>>, <<1, 0>>, <<0, 1>>}

\* outlines of 1..MaxLen points; the caller's outlines start at the origin
Footprints ==
    {P \in UNION {[1..n -> Points] : n \in 1..MaxLen} : P[1] = <<0, 0>>}

\* height arguments
Heights == {1, 3}

\* below_ground_storey_height arguments: 1 and the default 2.5
GroundHeights == {FromInt(1), FDiv(FromInt(5), FromInt(2))}

\* the caller's two coordinate lists, and the Blocks it creates, numbered in
\* order of creation
ListIds == {1, 2}
BlockIds == {1, 2}

\* the derived properties a caller reads
Props == {"stories", "footprint", "floor_heights", "ceiling_heights",
          "walls", "floors", "ceilings", "roofs", "surfaces"}

(* ------------------------------- state -------------------------------- *)

VARIABLES
    heap,     \* list id -> the points of that caller-owned Python list
    kwargs,   \* the scalar arguments the caller passes to Block(...)
    blocks,   \* Block variable -> None or the Block's attributes;
              \*   .coordinates is a reference (list id) into heap
    built,    \* history: Block variable -> None or the argument passed to
              \*   the constructor and the attribute values when it returned
    last      \* the call whose outcome the caller is looking at: its
              \*   operation, argument and outcome; op = "none" between calls

vars == <<heap, kwargs, blocks, built, last>>

(* ------------------------------- Block -------------------------------- *)

\* the Block as the methods see it: attributes with self.coordinates read
\* through the reference
Self(b) ==
    [name |-> blocks[b].name,
     coordinates |-> heap[blocks[b].coordinates],
     height |-> blocks[b].height,
     num_stories |-> blocks[b].num_stories,
     num_below_ground_stories |-> blocks[b].num_below_ground_stories,
     below_ground_storey_height |-> blocks[b].below_ground_storey_height]

\* Block.footprint
footprint(self) ==
    Polygon3D([i \in 1..Len(self.coordinates) |->
                  <<self.coordinates[i][1], self.coordinates[i][2], Zero>>])

\* Block.storey_height divides by zero
storey_height_raises(self) ==
    self.num_stories - self.num_below_ground_stories = 0

\* mutant: the height divided over all storeys, basements included
storey_height_overAllStories(self) ==
    FDiv(FromInt(self.height), FromInt(self.num_stories))

\* Block.storey_height
storey_height(self) ==
    FDiv(FromInt(self.height),
         FromInt(self.num_stories - self.num_below_ground_stories))

\* Block.lowest_floor_level
lowest_floor_level(self) ==
    FNeg(FMul(FromInt(self.num_below_ground_stories),
              self.below_ground_storey_height))

\* Block.floor_heights
floor_heights(self) ==
    LET lfl == lowest_floor_level(self)
        sh == storey_height(self)
    IN  [k \in 1..self.num_stories |-> FAdd(lfl, FMul(sh, FromInt(k - 1)))]

\* Block.ceiling_heights
ceiling_heights(self) ==
    LET lfl == lowest_floor_level(self)
        sh == storey_height(self)
    IN  [k \in 1..self.num_stories |->
            FAdd(lfl, FMul(sh, FromInt((k - 1) + 1)))]

\* mutant: the corners start at the floor instead of the ceiling
make_wall_floorFirst(edge, fh, ch) ==
    Polygon3D(<<VecAdd(edge.p1, <<0, 0, fh>>),
                VecAdd(edge.p1, <<0, 0, ch>>),
                VecAdd(edge.p2, <<0, 0, ch>>),
                VecAdd(edge.p2, <<0, 0, fh>>)>>)

\* make_wall
make_wall(edge, fh, ch) ==
    Polygon3D(<<VecAdd(edge.p1, <<0, 0, ch>>),
                VecAdd(edge.p1, <<0, 0, fh>>),
                VecAdd(edge.p2, <<0, 0, fh>>),
                VecAdd(edge.p2, <<0, 0, ch>>)>>)

Min(a, b) == IF a < b THEN a ELSE b

\* [make_wall(edge, fh, ch) for edge in es]
floor_walls(es, fh, ch) == [e \in 1..Len(es) |-> make_wall(es[e], fh, ch)]

\* the walls of the storeys zip(fhs, chs) pairs up, one list per storey
walls_zip(es, fhs, chs) ==
    [k \in 1..Min(Len(fhs), Len(chs)) |-> floor_walls(es, fhs[k], chs[k])]

\* Block.walls
walls(self) ==
    walls_zip(edges(footprint(self)),
              floor_heights(self), ceiling_heights(self))

\* [[poly + Vector3D(0, 0, h)] for h in hs]
raised_to(poly, hs) ==
    [k \in 1..Len(hs) |-> <<PolyAdd(poly, Vector3D(0, 0, hs[k]))>>]

\* Block.floors
floors(self) ==
    raised_to(invert_orientation(footprint(self)), floor_heights(self))

\* ceiling_heights[:-1]
AllButLast(s) == SubSeq(s, 1, Len(s) - 1)

\* mutant: the topmost storey gets a ceiling polygon too
ceilings_withTopCeiling(self) ==
    raised_to(footprint(self), ceiling_heights(self))

\* Block.ceilings
ceilings(self) ==
    Append(raised_to(footprint(self), AllButLast(ceiling_heights(self))), "")

\* [[None] for h in hs]
no_roofs(hs) == [k \in 1..Len(hs) |-> <<None>>]

\* Block.roofs
roofs(self) ==
    Append(no_roofs(AllButLast(ceiling_heights(self))),
           <<PolyAdd(footprint(self), Vector3D(0, 0, FromInt(self.height)))>>)

\* Block.surfaces
surfaces(self) ==
    [walls |-> walls(self),
     ceilings |-> ceilings(self),
     roofs |-> roofs(self),
     floors |-> floors(self)]

\* one dict per storey zip(f, c, w, r) groups, numbered from floor_no up
stories_zip(floor_no, f, c, w, r) ==
    [k \in 1..Min(Min(Len(f), Len(c)), Min(Len(w), Len(r))) |->
        [storey_no |-> floor_no + (k - 1),
         floors |-> f[k], ceilings |-> c[k],
         walls |-> w[k], roofs |-> r[k]]]

\* Block.stories
stories(self) ==
    stories_zip(IF self.num_below_ground_stories # 0
                THEN -self.num_below_ground_stories
                ELSE 0,
                floors(self), ceilings(self), walls(self), roofs(self))

Return(v) == [outcome |-> "return", value |-> v]
Raise(e) == [outcome |-> e, value |-> None]

\* reading property `prop` of a Block: the value returned or the exception
GetProp(self, prop) ==
    IF prop = "footprint" THEN Return(footprint(self))
    ELSE IF storey_height_raises(self) THEN Raise("ZeroDivisionError")
    ELSE CASE prop = "stories" -> Return(stories(self))
           [] prop = "floor_heights" -> Return(floor_heights(self))
           [] prop = "ceiling_heights" -> Return(ceiling_heights(self))
           [] prop = "walls" -> Return(walls(self))
           [] prop = "floors" -> Return(floors(self))
           [] prop = "ceilings" -> Return(ceilings(self))
           [] prop = "roofs" -> Return(roofs(self))
           [] prop = "surfaces" -> Return(surfaces(self))

(* -------------------------------- Zone -------------------------------- *)

\* mutant: the walls are passed through like the other groups
Zone_unfiltered(name, surfs) ==
    [name |-> name,
     walls |-> surfs.walls,
     floors |-> surfs.floors,
     roofs |-> surfs.roofs,
     ceilings |-> surfs.ceilings]

\* Zone.__init__
Zone(name, surfs) ==
    [name |-> name,
     walls |-> SelectSeq(surfs.walls, area_positive),
     floors |-> surfs.floors,
     roofs |-> surfs.roofs,
     ceilings |-> surfs.ceilings]

(* ------------------------------ actions ------------------------------- *)

Call(op, b, arg, res) ==
    [op |-> op, block |-> b, arg |-> arg,
     outcome |-> res.outcome, value |-> res.value]

Idle == Call("none", 0, None, Return(None))

\* the next Block object created is number b
NextBlock(b) ==
    /\ blocks[b].tag = "None"
    /\ \A c \in BlockIds : c < b => blocks[c].tag = "Block"

Init ==
    /\ \E P \in Footprints : heap = <<P, Append(P, P[1])>>
    /\ kwargs \in [height : Heights,
                   num_stories : 1..MaxStories,
                   below_ground_stories : 0..MaxStories,
                   below_ground_storey_height : GroundHeights]
    /\ blocks = [b \in BlockIds |-> None]
    /\ built = [b \in BlockIds |-> None]
    /\ last = Idle

\* coordinates[0] == coordinates[-1]
Closed(coordinates) == coordinates[1] = coordinates[Len(coordinates)]

\* mutant: the closing point is kept
AfterInit_keepClosingPoint(coordinates) == coordinates

\* the caller's list after Block.__init__ ran on it
AfterInit(coordinates) ==
    IF Closed(coordinates) THEN AllButLast(coordinates) ELSE coordinates

\* Block.__init__ on the caller's list l, assigned to Block variable b
BlockInit(b, l) ==
    /\ last.op = "none"
    /\ NextBlock(b)
    /\ heap[l] # <<>>
    /\ heap' = [heap EXCEPT ![l] = AfterInit(heap[l])]
    /\ blocks' = [blocks EXCEPT ![b] =
          [tag |-> "Block",
           name |-> b,
           coordinates |-> l,
           height |-> kwargs.height,
           num_stories |-> kwargs.num_stories,
           num_below_ground_stories |-> kwargs.below_ground_stories,
           below_ground_storey_height |-> kwargs.below_ground_storey_height]]
    /\ built' = [built EXCEPT ![b] =
          [tag |-> "Block",
           passed |-> heap[l],
           coordinates |-> heap'[l],
           height |-> kwargs.height,
           num_stories |-> kwargs.num_stories,
           num_below_ground_stories |-> kwargs.below_ground_stories,
           below_ground_storey_height |-> kwargs.below_ground_storey_height]]
    /\ last' = Call("Block", b, [list |-> l, before |-> heap[l]], Return(b))
    /\ UNCHANGED kwargs

\* Block.__init__ on an empty list: coordinates[0] raises IndexError
BlockInitIndexError(b, l) ==
    /\ last.op = "none"
    /\ NextBlock(b)
    /\ heap[l] = <<>>
    /\ last' = Call("Block", b, [list |-> l, before |-> heap[l]],
                    Raise("IndexError"))
    /\ UNCHANGED <<heap, kwargs, blocks, built>>

\* the caller reads a derived property of a constructed Block
Get(b, prop) ==
    /\ last.op = "none"
    /\ blocks[b].tag = "Block"
    /\ \E res \in {GetProp(Self(b), prop)} :
          last' = Call("get", b, prop, res)
    /\ UNCHANGED <<heap, kwargs, blocks, built>>

\* the caller wraps storey k of Block b in a Zone
MakeZone(b, k) ==
    /\ last.op = "none"
    /\ blocks[b].tag = "Block"
    /\ ~storey_height_raises(Self(b))
    /\ \E storeys \in {stories(Self(b))} :
          /\ k \in 1..Len(storeys)
          /\ \E zone \in {Zone("zone", storeys[k])} :
                last' = Call("Zone", b, storeys[k], Return(zone))
    /\ UNCHANGED <<heap, kwargs, blocks, built>>

\* the caller is done with the outcome of the last call
Drop ==
    /\ last.op # "none"
    /\ last' = Idle
    /\ UNCHANGED <<heap, kwargs, blocks, built>>

Next ==
    \/ \E b \in BlockIds, l \in ListIds : BlockInit(b, l)
    \/ \E b \in BlockIds, l \in ListIds : BlockInitIndexError(b, l)
    \/ \E b \in BlockIds, prop \in Props : Get(b, prop)
    \/ \E b \in BlockIds, k \in 1..MaxStories : MakeZone(b, k)
    \/ Drop

Spec == Init /\ [][Next]_vars

(* ------------------------------ claims -------------------------------- *)

\* the attributes of the Block the last call was made on
LastSelf == Self(last.block)

\* the last call read property prop of a Block and got a value back
Got(prop) ==
    /\ last.op = "get"
    /\ last.arg = prop
    /\ last.outcome = "return"

\* valid input: H > 0, N >= 1, 0 <= B < N, G > 0
Valid(self) ==
    /\ self.height > 0
    /\ self.num_stories >= 1
    /\ 0 <= self.num_below_ground_stories
    /\ self.num_below_ground_stories < self.num_stories
    /\ self.below_ground_storey_height.sign = 1

\* the Python expression -(B*G) + (H/(N-B))*j, every operation rounded
Elevation(self, j) ==
    FAdd(FNeg(FMul(FromInt(self.num_below_ground_stories),
                   self.below_ground_storey_height)),
         FMul(FDiv(FromInt(self.height),
                   FromInt(self.num_stories - self.num_below_ground_stories)),
              FromInt(j)))

\* the Python expression H/(N-B)
StoreyHeight(self) ==
    FDiv(FromInt(self.height),
         FromInt(self.num_stories - self.num_below_ground_stories))

\* C1 (as claimed): for valid input floor_heights and ceiling_heights have N
\* entries, floor i is -(B*G) + S*i and ceiling i is -(B*G) + S*(i+1) with
\* S = H/(N-B) (i from 0), the lowest floor is -(B*G), and for every storey
\* ceiling - floor == H/(N-B).
C1_SpacingExact ==
    /\ (Got("floor_heights") /\ Valid(LastSelf)) =>
          /\ Len(last.value) = LastSelf.num_stories
          /\ \A k \in 1..Len(last.value) :
                /\ last.value[k] = Elevation(LastSelf, k - 1)
                /\ FSub(ceiling_heights(LastSelf)[k], last.value[k])
                      = StoreyHeight(LastSelf)
          /\ last.value[1]
                = FNeg(FMul(FromInt(LastSelf.num_below_ground_stories),
                            LastSelf.below_ground_storey_height))
    /\ (Got("ceiling_heights") /\ Valid(LastSelf)) =>
          /\ Len(last.value) = LastSelf.num_stories
          /\ \A k \in 1..Len(last.value) :
                last.value[k] = Elevation(LastSelf, k)

\* C1 (amended): for valid input floor_heights and ceiling_heights have N
\* entries, floor i is the float the expression -(B*G) + (H/(N-B))*i
\* evaluates to and ceiling i the float -(B*G) + (H/(N-B))*(i+1) evaluates to
\* (i from 0); the lowest floor is -(B*G), 0 when B = 0; every storey's
\* ceiling is the floor of the storey above and is not below its own floor;
\* and with B = 0 the lowest storey's ceiling - floor == H/N.
C1_Elevations ==
    /\ (Got("floor_heights") /\ Valid(LastSelf)) =>
          /\ Len(last.value) = LastSelf.num_stories
          /\ \A k \in 1..Len(last.value) :
                /\ last.value[k] = Elevation(LastSelf, k - 1)
                /\ FLeq(last.value[k], ceiling_heights(LastSelf)[k])
                /\ k > 1 => ceiling_heights(LastSelf)[k - 1] = last.value[k]
          /\ last.value[1]
                = FNeg(FMul(FromInt(LastSelf.num_below_ground_stories),
                            LastSelf.below_ground_storey_height))
          /\ LastSelf.num_below_ground_stories = 0 =>
                /\ last.value[1] = Zero
                /\ FSub(ceiling_heights(LastSelf)[1], last.value[1])
                      = StoreyHeight(LastSelf)
    /\ (Got("ceiling_heights") /\ Valid(LastSelf)) =>
          /\ Len(last.value) = LastSelf.num_stories
          /\ \A k \in 1..Len(last.value) :
                last.value[k] = Elevation(LastSelf, k)

\* floor_heights of a Block of height 1 with three storeys above ground:
\* [0.0, 0.3333333333333333, 0.6666666666666666], where the top storey's
\* ceiling - floor is 0.33333333333333337
C1_Witness ==
    /\ Got("floor_heights")
    /\ Valid(LastSelf)
    /\ LastSelf.height = 1
    /\ LastSelf.num_stories = 3
    /\ LastSelf.num_below_ground_stories = 0
    /\ last.value[2] = [sign |-> 1, hi |-> 44739242, lo |-> 89478485,
                        exp |-> -54]
    /\ last.value[3] = [sign |-> 1, hi |-> 44739242, lo |-> 89478485,
                        exp |-> -53]
    /\ FSub(ceiling_heights(LastSelf)[3], last.value[3])
          = [sign |-> 1, hi |-> 44739242, lo |-> 89478486, exp |-> -54]

\* C2 (as claimed): whenever N - B <= 0, no read of floor_heights,
\* ceiling_heights, walls, floors, ceilings, roofs, surfaces or stories
\* returns a value.
C2_NoValueWhenUndefined ==
    (/\ last.op = "get"
     /\ last.arg # "footprint"
     /\ LastSelf.num_stories - LastSelf.num_below_ground_stories <= 0)
    => last.outcome # "return"

\* the polygon's vertices are the points of coordinates, in order, at height z
IsOutlineAt(poly, coordinates, z) ==
    /\ poly.tag = "Polygon3D"
    /\ Len(poly.vertices) = Len(coordinates)
    /\ \A i \in 1..Len(coordinates) :
          poly.vertices[i] = <<coordinates[i][1], coordinates[i][2], z>>

\* C3: for valid input ceilings and roofs have N entries, lowest storey
\* first; the topmost entry is an empty ceiling and a roof holding the
\* footprint at height H; every other entry is a ceiling holding the
\* footprint at that storey's ceiling elevation and a roof holding no polygon.
C3_CeilingsAndRoofs ==
    /\ (Got("ceilings") /\ Valid(LastSelf)) =>
          /\ Len(last.value) = LastSelf.num_stories
          /\ Len(last.value[LastSelf.num_stories]) = 0
          /\ \A k \in 1..(LastSelf.num_stories - 1) :
                /\ Len(last.value[k]) = 1
                /\ IsOutlineAt(last.value[k][1], LastSelf.coordinates,
                               Elevation(LastSelf, k))
    /\ (Got("roofs") /\ Valid(LastSelf)) =>
          /\ Len(last.value) = LastSelf.num_stories
          /\ Len(last.value[LastSelf.num_stories]) = 1
          /\ IsOutlineAt(last.value[LastSelf.num_stories][1],
                         LastSelf.coordinates,
                         FromInt(LastSelf.height))
          /\ \A k \in 1..(LastSelf.num_stories - 1) :
                \A e \in 1..Len(last.value[k]) :
                    last.value[k][e].tag # "Polygon3D"

C3_Witness ==
    /\ Got("ceilings")
    /\ Valid(LastSelf)
    /\ LastSelf.num_stories = 2
    /\ Len(LastSelf.coordinates) = 3
    /\ Len(last.value[1]) = 1
    /\ Len(last.value[2]) = 0

\* two reads end alike: the same exception, or equal values
SameOutcome(r1, r2) ==
    /\ r1.outcome = r2.outcome
    /\ r1.outcome = "return" => r1.value = r2.value

\* Block b was built from the open outline P and Block c from P followed by
\* a closing copy of P's first point, with the same other arguments
ClosedTwin(b, c) ==
    /\ blocks[b].tag = "Block"
    /\ blocks[c].tag = "Block"
    /\ built[b].passed[1] # built[b].passed[Len(built[b].passed)]
    /\ built[c].passed = Append(built[b].passed, built[b].passed[1])
    /\ built[b].height = built[c].height
    /\ built[b].num_stories = built[c].num_stories
    /\ built[b].num_below_ground_stories = built[c].num_below_ground_stories
    /\ built[b].below_ground_storey_height
          = built[c].below_ground_storey_height

\* C4: a Block built from P plus a closing copy of P's first point has the
\* same stored coordinates and the same footprint, walls, floors, ceilings,
\* roofs and stories as a Block built from P (first and last point of P
\* different), and its stored outline's first and last points differ.
\* Constructions are the only steps that change a Block or a list, so the
\* comparison is made in the state each construction leaves.
C4_ClosureIdempotent ==
    (last.op = "Block" /\ last.outcome = "return") =>
        \A b \in BlockIds, c \in BlockIds :
            ClosedTwin(b, c) =>
                /\ Self(c).coordinates = Self(b).coordinates
                /\ Self(c).coordinates = built[b].passed
                /\ Self(c).coordinates[1]
                      # Self(c).coordinates[Len(Self(c).coordinates)]
                /\ \A prop \in Props :
                      SameOutcome(GetProp(Self(b), prop),
                                  GetProp(Self(c), prop))

C4_Witness ==
    /\ last.op = "Block"
    /\ last.outcome = "return"
    /\ last.block = 2
    /\ ClosedTwin(1, 2)
    /\ Len(built[2].passed) = 4
    /\ Len(Self(2).coordinates) = 3
    /\ Valid(Self(2))

\* C5: for valid input every storey's walls group has one wall per stored
\* footprint vertex, in edge order, and the wall of edge (p1, p2) of a storey
\* with floor elevation f and ceiling elevation c has the corners p1 at c,
\* p1 at f, p2 at f, p2 at c, in this order.
C5_Walls ==
    (Got("walls") /\ Valid(LastSelf)) =>
        LET xy == LastSelf.coordinates
            n == Len(xy)
        IN  /\ Len(last.value) = LastSelf.num_stories
            /\ \A k \in 1..Len(last.value) :
                  LET f == floor_heights(LastSelf)[k]
                      c == ceiling_heights(LastSelf)[k]
                  IN  /\ Len(last.value[k]) = n
                      /\ \A e \in 1..n :
                            LET p1 == xy[e]
                                p2 == xy[(e % n) + 1]
                            IN  /\ last.value[k][e].tag = "Polygon3D"
                                /\ last.value[k][e].vertices =
                                      <<<<p1[1], p1[2], c>>,
                                        <<p1[1], p1[2], f>>,
                                        <<p2[1], p2[2], f>>,
                                        <<p2[1], p2[2], c>>>>

C5_Witness ==
    /\ Got("walls")
    /\ Valid(LastSelf)
    /\ LastSelf.num_stories = 2
    /\ LastSelf.num_below_ground_stories = 1
    /\ LastSelf.coordinates = <<<<0, 0>>, <<1, 0>>, <<0, 1>>>>
    /\ Len(last.value[2]) = 3

\* the indices of the walls of positive area
Kept(ws) == {i \in 1..Len(ws) : area_positive(ws[i])}

\* the j-th smallest index in I
Nth(I, j) == CHOOSE i \in I : Cardinality({m \in I : m <= i}) = j

\* the edges (p, next p) of the outline whose two end points are equal
ZeroEdges(xy) == {e \in 1..Len(xy) : xy[e] = xy[(e % Len(xy)) + 1]}

\* C6: Zone.walls is the input walls without the walls of non-positive area,
\* the others in their original order; floors, ceilings and roofs are the
\* input groups unchanged; for a valid Block whose footprint has exactly one
\* zero-length edge the Zone has one wall fewer than the storey.
C6_ZoneFilter ==
    last.op = "Zone" =>
        LET surfs == last.arg
            zone == last.value
            keep == Kept(surfs.walls)
        IN  /\ Len(zone.walls) = Cardinality(keep)
            /\ \A j \in 1..Len(zone.walls) :
                  zone.walls[j] = surfs.walls[Nth(keep, j)]
            /\ zone.floors = surfs.floors
            /\ zone.ceilings = surfs.ceilings
            /\ zone.roofs = surfs.roofs
            /\ (/\ Valid(LastSelf)
                /\ Cardinality(ZeroEdges(LastSelf.coordinates)) = 1)
               => Len(zone.walls) = Len(surfs.walls) - 1

C6_Witness ==
    /\ last.op = "Zone"
    /\ Valid(LastSelf)
    /\ LastSelf.coordinates = <<<<0, 0>>, <<0, 0>>, <<1, 0>>>>
    /\ Len(last.arg.walls) = 3
    /\ Len(last.value.walls) = 2
    /\ last.arg.roofs = <<None>>

\* C7 (as claimed): for valid input stories has N records numbered -B,
\* -B+1, ... in order of increasing elevation; every storey with a negative
\* storey_no has its ceiling at or below elevation 0, and the storey
\* numbered 0 has its floor at elevation 0.
C7_NumberingAgreesWithGround ==
    (Got("stories") /\ Valid(LastSelf)) =>
        /\ Len(last.value) = LastSelf.num_stories
        /\ \A k \in 1..Len(last.value) :
              /\ last.value[k].storey_no
                    = (k - 1) - LastSelf.num_below_ground_stories
              /\ k > 1 => FLess(floor_heights(LastSelf)[k - 1],
                                floor_heights(LastSelf)[k])
              /\ last.value[k].storey_no < 0
                    => FLeq(ceiling_heights(LastSelf)[k], Zero)
              /\ last.value[k].storey_no = 0
                    => floor_heights(LastSelf)[k] = Zero

\* the attributes Block b had when its constructor returned
AsBuilt(b) ==
    [name |-> blocks[b].name,
     coordinates |-> built[b].coordinates,
     height |-> built[b].height,
     num_stories |-> built[b].num_stories,
     num_below_ground_stories |-> built[b].num_below_ground_stories,
     below_ground_storey_height |-> built[b].below_ground_storey_height]

\* C8 (as claimed): a constructed Block's coordinates, height, storey counts
\* and below-ground storey height stay what they were when its constructor
\* returned, whatever is read or constructed afterwards, and every read of a
\* derived property returns what a read at that moment would have returned.
C8_FrozenAfterConstruction ==
    /\ \A b \in BlockIds :
          blocks[b].tag = "Block" =>
              /\ Self(b).coordinates = AsBuilt(b).coordinates
              /\ Self(b).height = AsBuilt(b).height
              /\ Self(b).num_stories = AsBuilt(b).num_stories
              /\ Self(b).num_below_ground_stories
                    = AsBuilt(b).num_below_ground_stories
              /\ Self(b).below_ground_storey_height
                    = AsBuilt(b).below_ground_storey_height
    /\ last.op = "get" =>
          SameOutcome([outcome |-> last.outcome, value |-> last.value],
                      GetProp(AsBuilt(last.block), last.arg))

\* C9 (as claimed): the list the caller passed to Block(...) holds the same
\* points after the construction as before it.
C9_CallerListUntouched ==
    (last.op = "Block" /\ last.outcome = "return") =>
        heap[last.arg.list] = last.arg.before

\* C10 (as claimed): for valid input the roof lies at the ceiling elevation
\* of the topmost storey, and every lower storey's ceiling elevation is the
\* floor elevation of the storey above it.
C10_ClosedEnvelope ==
    (Got("roofs") /\ Valid(LastSelf)) =>
        LET N == LastSelf.num_stories
            roof == last.value[N][1]
        IN  /\ \A i \in 1..Len(roof.vertices) :
                  roof.vertices[i][3] = ceiling_heights(LastSelf)[N]
            /\ \A k \in 1..(N - 1) :
                  ceiling_heights(LastSelf)[k] = floor_heights(LastSelf)[k + 1]

====
